---- MODULE Spec2Model ----
(***************************************************************************)
(* Model of the two Streamlit scripts of the repository, app.py and        *)
(* streamlit_app.py.  A Streamlit script is re-executed from its first     *)
(* line on every user interaction (a "rerun"); the only thing the scripts  *)
(* keep between reruns is what st.cache_resource holds for load_model and  *)
(* the widgets' own state.  A behaviour of this model is one session of    *)
(* one of the two scripts: reruns one after the other, each walked through *)
(* in the order of the script's statements.                                *)
(*                                                                         *)
(* Confidences are integers in hundredths (0.25 is 25).  An image is a     *)
(* coarse grid of cells, each an (R, G, B) triple; a bounding box covers   *)
(* whole cells.  Objects held by the heap (PIL images, numpy arrays) are   *)
(* named by references, so that drawing through an alias is visible.       *)
(***************************************************************************)
EXTENDS Integers, Sequences, FiniteSets

VARIABLES
    app,            \* which script this session runs: "app" or "streamlit_app"
    pc,             \* position of the current rerun in the script
    cache,          \* st.cache_resource entry of load_model: "unset", "model", "none"
    nConstructed,   \* number of YOLO(...) objects constructed so far
    model,          \* the script's `model`: 0 is None/unbound, else the instance
    usedModels,     \* instances on which model.predict has been called (history)
    loadFailure,    \* history: "never", or YOLO(...) failed "now" (this rerun) or "before"
    decodeFailure,  \* history: "never", or Image.open raised "now" or "before"
    uploaded_file,  \* value of st.file_uploader in this rerun
    confidence,     \* app.py: the slider's value
    conf_used,      \* the conf= argument of the last model.predict call
    heap,           \* reference -> pixels (NoBuf: not allocated)
    image,          \* reference of the decoded upload ("none" before decoding)
    image_result,   \* reference of the annotated image shown ("none": not shown)
    raw,            \* result.boxes of this rerun's model.predict
    detections,     \* the counts dict: detections (app.py), detections_count
    boxes_data,     \* one record per box drawn, in drawing order
    metrics,        \* the st.metric widgets of the per-class counts, in order
    summary,        \* the entries of the one-line summary text, in order
    total,          \* the total shown with the summary
    notice,         \* which message this rerun has shown
    calls           \* pipeline stages this rerun has executed

vars == <<app, pc, cache, nConstructed, model, usedModels, loadFailure,
          decodeFailure, uploaded_file, confidence, conf_used, heap, image,
          image_result, raw, detections, boxes_data, metrics, summary, total,
          notice, calls>>

-----------------------------------------------------------------------------
(* Bounds of the model *)

MaxBoxes == 3       \* longest list of objects in an uploaded picture
GridW == 3          \* image width in cells
GridH == 3          \* image height in cells
MaxLoads == 3       \* cap on YOLO(...) constructions in one session

(* Program constants *)

FixedConf == 25     \* streamlit_app.py: conf=0.25
SliderDefault == 25 \* app.py: st.slider(..., 0.1, 1.0, 0.25, 0.05)

-----------------------------------------------------------------------------
(* The class tables *)

Apps == {"app", "streamlit_app"}

\* app.py CLASS_NAMES
CLASS_NAMES ==
    [c \in {2, 3, 5, 7, 0, 9} |->
        CASE c = 2 -> "car" [] c = 3 -> "motorbike" [] c = 5 -> "bus"
          [] c = 7 -> "truck" [] c = 0 -> "person" [] c = 9 -> "traffic light"]

\* app.py COLORS (RGB); motorbike has no entry
COLORS ==
    [n \in {"car", "person", "traffic light", "bus", "truck"} |->
        CASE n = "car" -> <<0, 255, 0>> [] n = "person" -> <<255, 0, 0>>
          [] n = "traffic light" -> <<0, 165, 255>> [] n = "bus" -> <<0, 255, 255>>
          [] n = "truck" -> <<128, 0, 255>>]

\* streamlit_app.py CLASES_INTERES
CLASES_INTERES ==
    [c \in {2, 3, 5, 7, 0, 9} |->
        CASE c = 2 -> "Carros" [] c = 3 -> "Motos" [] c = 5 -> "Autobuses"
          [] c = 7 -> "Camiones" [] c = 0 -> "Personas" [] c = 9 -> "Semaforos"]

\* streamlit_app.py colors (BGR, used on the cv2 image)
colors ==
    [c \in {0, 2, 3, 5, 7, 9} |->
        CASE c = 0 -> <<0, 255, 0>> [] c = 2 -> <<255, 0, 0>>
          [] c = 3 -> <<255, 165, 0>> [] c = 5 -> <<255, 0, 255>>
          [] c = 7 -> <<0, 255, 255>> [] c = 9 -> <<0, 0, 255>>]

\* The class registry of the running script
Registry == IF app = "app" THEN DOMAIN CLASS_NAMES ELSE DOMAIN CLASES_INTERES

\* Class ids the detector reports in the modelled pictures: two registered
\* classes and one COCO class outside the registry (16, dog)
DetectorIds == {2, 0, 16}

\* result.names of the detector, for the ids above
ModelNames == [c \in DetectorIds |->
                 CASE c = 2 -> "car" [] c = 0 -> "person" [] c = 16 -> "dog"]

\* app.py: f"class_{class_id}", for the ids above
FallbackName(class_id) == CASE class_id = 16 -> "class_16" [] OTHER -> "class_n"

-----------------------------------------------------------------------------
(* Inputs *)

\* Confidences the detector attaches to an object
ObjConfs == {50, 95}

\* Slider positions tried (the slider runs from 10 to 100 in steps of 5)
SliderValues == {SliderDefault, 90}

Cells == (1..GridW) \X (1..GridH)

\* The uploaded picture: its cells differ from each other and its channels differ
Pictures == { [c \in Cells |-> <<c[1], c[2] + 10, 30>>] }

\* The i-th object of a picture sits in a 2x2 block of cells
BoxOf(i) ==
    LET x == 1 + ((i - 1) % (GridW - 1))
        y == 1 + (i % (GridH - 1))
    IN  <<x, y, x + 1, y + 1>>

\* The objects of a picture: what the detector can find in it, in the order it
\* reports them
ObjectLists ==
    UNION { { [i \in 1..n |-> [cls |-> f[i][1], conf |-> f[i][2], xyxy |-> BoxOf(i)]] :
                f \in [1..n -> DetectorIds \X ObjConfs] } : n \in 0..MaxBoxes }

NoFile == [kind |-> "none", pixels |-> [c \in Cells |-> <<0, 0, 0>>],
           objects |-> <<>>]
\* A file that is not an image: its bytes decode to nothing meaningful
CorruptFile == [kind |-> "corrupt", pixels |-> [c \in Cells |-> <<0, 0, 0>>],
                objects |-> <<>>]
ImageFiles == { [kind |-> "image", pixels |-> p, objects |-> o] :
                  p \in Pictures, o \in ObjectLists }
Files == {NoFile, CorruptFile} \cup ImageFiles

Refs == {"image", "img_draw", "image_np", "image_np_copy", "image_cv2", "image_rgb"}
NoBuf == <<>>
EmptyHeap == [r \in Refs |-> NoBuf]

-----------------------------------------------------------------------------
(* Helpers on the insertion-ordered dict, a sequence of [k, v] entries *)

HasKey(d, k) == \E i \in 1..Len(d) : d[i].k = k

\* d[k] = 1 for a key already present: the count is not accumulated
IncrReset(d, k) ==
    IF HasKey(d, k)
    THEN [i \in 1..Len(d) |-> IF d[i].k = k THEN [k |-> k, v |-> 1] ELSE d[i]]
    ELSE Append(d, [k |-> k, v |-> 1])

\* d[k] = d.get(k, 0) + 1: an existing key keeps its position, a new one is last
Incr(d, k) ==
    IF HasKey(d, k)
    THEN [i \in 1..Len(d) |-> IF d[i].k = k THEN [k |-> k, v |-> d[i].v + 1] ELSE d[i]]
    ELSE Append(d, [k |-> k, v |-> 1])

RECURSIVE SumValues(_)
SumValues(d) == IF d = <<>> THEN 0 ELSE Head(d).v + SumValues(Tail(d))

-----------------------------------------------------------------------------
(* load_model and its cache *)

\* load_model without @st.cache_resource: every rerun constructs the detector
NeverCached == FALSE

\* @st.cache_resource: a stored return value is handed back without calling
\* the function again (None is a return value like any other)
CacheHit == cache # "unset"

-----------------------------------------------------------------------------
(* The detector *)

\* The call of process_image, conf=0.25 whatever the slider says
ThresholdHardcoded == FixedConf

\* The conf= argument of model.predict: the slider in app.py, the literal 0.25
\* in streamlit_app.py
Threshold == IF app = "app" THEN confidence ELSE FixedConf

\* model.predict(img, conf=c): the objects of the picture scoring at least c
Detect(objects, c) == SelectSeq(objects, LAMBDA o : o.conf >= c)

-----------------------------------------------------------------------------
(* Images *)

\* Drawing on the image itself: no copy is taken
CopyAlias(src, dst) == src

\* image.copy() / image_np.copy(): a new object, named dst, with src's pixels
Copy(src, dst) == dst

\* cv2.cvtColor(..., COLOR_RGB2BGR) and COLOR_BGR2RGB: the channels reversed
CvtColor(px) == [c \in Cells |-> <<px[c][3], px[c][2], px[c][1]>>]

Paint(px, cs, color) == [c \in Cells |-> IF c \in cs THEN color ELSE px[c]]

\* The cells a rectangle's outline covers
Outline(b) ==
    { c \in Cells : /\ b[1] <= c[1] /\ c[1] <= b[3]
                    /\ b[2] <= c[2] /\ c[2] <= b[4]
                    /\ (c[1] \in {b[1], b[3]} \/ c[2] \in {b[2], b[4]}) }

\* app.py: draw.text((x1, y1 - 10), ...): the cell above the top-left corner,
\* when it is on the canvas
TextCells(b) == { c \in Cells : c = <<b[1], b[2] - 1>> }

\* streamlit_app.py: the filled rectangle behind the label, from above the
\* top-left corner down to the box's top edge
LabelBackground(b) ==
    { c \in Cells : c[1] \in {b[1], b[1] + 1} /\ c[2] \in {b[2] - 1, b[2]} }

-----------------------------------------------------------------------------
(* app.py draw_detections *)

\* A counts dict that outlives the run (kept at module level or in the session)
CarriedDetections == detections

\* detections = {"car": 0, ...}: the counts dict a run starts from
NewDetections ==
    IF app = "app"
    THEN << [k |-> "car", v |-> 0], [k |-> "person", v |-> 0],
            [k |-> "traffic light", v |-> 0], [k |-> "bus", v |-> 0],
            [k |-> "truck", v |-> 0], [k |-> "motorbike", v |-> 0] >>
    ELSE << >>

\* CLASS_NAMES.get(class_id, f"class_{class_id}")
AppClassName(class_id) ==
    IF class_id \in DOMAIN CLASS_NAMES THEN CLASS_NAMES[class_id]
    ELSE FallbackName(class_id)

\* Counting without the membership test: detections[class_name] = ....get(...) + 1
AppCountAll(d, class_name) == Incr(d, class_name)

\* if class_name in detections: detections[class_name] += 1
AppCount(d, class_name) == IF HasKey(d, class_name) THEN Incr(d, class_name) ELSE d

\* COLORS.get(class_name, (255, 255, 255))
AppColor(class_name) ==
    IF class_name \in DOMAIN COLORS THEN COLORS[class_name] ELSE <<255, 255, 255>>

\* One iteration of `for box in boxes`: count, rectangle, label
AppBox(st, box) ==
    LET class_name == AppClassName(box.cls)
        color == AppColor(class_name)
    IN  [d |-> AppCount(st.d, class_name),
         px |-> Paint(Paint(st.px, Outline(box.xyxy), color), TextCells(box.xyxy), color),
         drawn |-> Append(st.drawn, [xyxy |-> box.xyxy, class_name |-> class_name,
                                     conf |-> box.conf, class_id |-> box.cls])]

RECURSIVE AppLoop(_, _)
AppLoop(st, boxes) ==
    IF boxes = << >> THEN st ELSE AppLoop(AppBox(st, Head(boxes)), Tail(boxes))

-----------------------------------------------------------------------------
(* streamlit_app.py: the counting loop and the drawing loop *)

\* if class_id in CLASES_INTERES: detections_count[name] = ....get(name, 0) + 1
StCount(d, class_id) ==
    IF class_id \in DOMAIN CLASES_INTERES THEN Incr(d, CLASES_INTERES[class_id]) ELSE d

\* One iteration of `for box in result.boxes`
StBox(st, box) ==
    [d |-> StCount(st.d, box.cls),
     drawn |-> Append(st.drawn, [xyxy |-> box.xyxy, class_name |-> ModelNames[box.cls],
                                 conf |-> box.conf, class_id |-> box.cls])]

RECURSIVE StLoop(_, _)
StLoop(st, boxes) ==
    IF boxes = << >> THEN st ELSE StLoop(StBox(st, Head(boxes)), Tail(boxes))

\* colors.get(class_id, (200, 200, 200))
StColor(class_id) ==
    IF class_id \in DOMAIN colors THEN colors[class_id] ELSE <<200, 200, 200>>

\* One iteration of `for box_info in boxes_data`: box, label background, text
StDrawBox(px, b) ==
    LET color == StColor(b.class_id)
    IN  Paint(Paint(Paint(px, Outline(b.xyxy), color), LabelBackground(b.xyxy), color),
              TextCells(b.xyxy), <<255, 255, 255>>)

RECURSIVE StDrawLoop(_, _)
StDrawLoop(px, bs) ==
    IF bs = << >> THEN px ELSE StDrawLoop(StDrawBox(px, Head(bs)), Tail(bs))

-----------------------------------------------------------------------------
(* The summary *)

\* Place e after every entry of s whose count is at least e's
RECURSIVE InsertByCount(_, _)
InsertByCount(s, e) ==
    IF s = << >> THEN << e >>
    ELSE IF Head(s).v >= e.v THEN << Head(s) >> \o InsertByCount(Tail(s), e)
    ELSE << e >> \o s

RECURSIVE SortLoop(_, _)
SortLoop(acc, d) ==
    IF d = << >> THEN acc ELSE SortLoop(InsertByCount(acc, Head(d)), Tail(d))

\* The entries listed in the dict's own order, not sorted
Unsorted(d) == d

\* sorted(detections_count.items(), key=lambda x: x[1], reverse=True): by count,
\* largest first; the sort is stable, entries of equal count keep the dict's order
SortedByCount(d) == SortLoop(<< >>, d)

Positive(d) == SelectSeq(d, LAMBDA e : e.v > 0)

\* Testing the dict itself in both scripts: app.py's dict is never empty
DictNonEmpty(d) == d # << >>

\* streamlit_app.py `if detections_count:`, app.py `if detected_items:`
HasObjects(d) == IF app = "app" THEN Positive(d) # << >> ELSE d # << >>

Get(d, k) == (CHOOSE i \in 1..Len(d) : d[i].k = k)

\* app.py metrics_data: six widgets in a fixed order
AppMetrics(d) ==
    << [k |-> "Carros", v |-> d[Get(d, "car")].v],
       [k |-> "Peatones", v |-> d[Get(d, "person")].v],
       [k |-> "Semaforos", v |-> d[Get(d, "traffic light")].v],
       [k |-> "Buses", v |-> d[Get(d, "bus")].v],
       [k |-> "Camiones", v |-> d[Get(d, "truck")].v],
       [k |-> "Motos", v |-> d[Get(d, "motorbike")].v] >>

-----------------------------------------------------------------------------
(* The state a rerun starts from: the script's names are unbound again.  The  *)
(* counts of the previous run are left in `detections` until the script      *)
(* binds the name again, so that a counts dict surviving a rerun would show. *)

RunVarsFresh ==
    /\ model' = 0
    /\ uploaded_file' = NoFile
    /\ conf_used' = 0
    /\ heap' = EmptyHeap
    /\ image' = "none"
    /\ image_result' = "none"
    /\ raw' = << >>
    /\ boxes_data' = << >>
    /\ metrics' = << >>
    /\ summary' = << >>
    /\ total' = 0
    /\ notice' = "none"
    /\ calls' = {}

Init ==
    /\ app \in Apps
    /\ pc = "load_model"
    /\ cache = "unset"
    /\ nConstructed = 0
    /\ model = 0
    /\ usedModels = {}
    /\ loadFailure = "never"
    /\ decodeFailure = "never"
    /\ uploaded_file = NoFile
    /\ confidence = SliderDefault
    /\ conf_used = 0
    /\ heap = EmptyHeap
    /\ image = "none"
    /\ image_result = "none"
    /\ raw = << >>
    /\ detections = << >>
    /\ boxes_data = << >>
    /\ metrics = << >>
    /\ summary = << >>
    /\ total = 0
    /\ notice = "none"
    /\ calls = {}

\* Where the script goes after `model = load_model()` returned
AfterLoad == IF app = "app" THEN "check_model" ELSE "widgets"

\* model = load_model(), answered by the cache
LoadModelCached ==
    /\ pc = "load_model"
    /\ CacheHit
    /\ model' = IF cache = "model" THEN nConstructed ELSE 0
    /\ pc' = AfterLoad
    /\ UNCHANGED <<app, cache, nConstructed, usedModels, loadFailure, decodeFailure,
                   uploaded_file, confidence, conf_used, heap, image, image_result,
                   raw, detections, boxes_data, metrics, summary, total, notice, calls>>

\* model = load_model(), YOLO("yolo11n.pt") succeeds: the instance is stored
LoadModelOk ==
    /\ pc = "load_model"
    /\ ~CacheHit
    /\ nConstructed < MaxLoads
    /\ nConstructed' = nConstructed + 1
    /\ cache' = "model"
    /\ model' = nConstructed + 1
    /\ pc' = AfterLoad
    /\ UNCHANGED <<app, usedModels, loadFailure, decodeFailure, uploaded_file,
                   confidence, conf_used, heap, image, image_result, raw, detections,
                   boxes_data, metrics, summary, total, notice, calls>>

\* model = load_model(), YOLO("yolo11n.pt") raises.  app.py catches it, shows
\* st.error and returns None, which the cache stores.  streamlit_app.py lets it
\* escape: nothing is stored and the script run ends with the exception shown.
LoadModelFails ==
    /\ pc = "load_model"
    /\ ~CacheHit
    /\ loadFailure' = "now"
    /\ model' = 0
    /\ IF app = "app"
       THEN /\ cache' = "none"
            /\ notice' = "load_error"
            /\ pc' = "check_model"
       ELSE /\ cache' = cache
            /\ notice' = "exception"
            /\ pc' = "halted"
    /\ UNCHANGED <<app, nConstructed, usedModels, decodeFailure, uploaded_file,
                   confidence, conf_used, heap, image, image_result, raw, detections,
                   boxes_data, metrics, summary, total, calls>>

\* The script without the `model is None` guard
CheckModelNoGuard ==
    /\ pc = "check_model"
    /\ pc' = "widgets"
    /\ UNCHANGED <<app, cache, nConstructed, model, usedModels, loadFailure,
                   decodeFailure, uploaded_file, confidence, conf_used, heap, image,
                   image_result, raw, detections, boxes_data, metrics, summary, total,
                   notice, calls>>

\* app.py: if model is None: st.error(...); st.stop()
CheckModel ==
    /\ pc = "check_model"
    /\ IF model = 0
       THEN /\ notice' = "no_model"
            /\ pc' = "halted"
       ELSE /\ notice' = notice
            /\ pc' = "widgets"
    /\ UNCHANGED <<app, cache, nConstructed, model, usedModels, loadFailure,
                   decodeFailure, uploaded_file, confidence, conf_used, heap, image,
                   image_result, raw, detections, boxes_data, metrics, summary, total,
                   calls>>

\* uploaded_file = st.file_uploader(...), and in app.py confidence = st.slider(...):
\* the widgets hand over what the user has set
ReadWidgets ==
    /\ pc = "widgets"
    /\ \E f \in Files : uploaded_file' = f
    /\ IF app = "app"
       THEN \E c \in SliderValues : confidence' = c
       ELSE confidence' = confidence
    /\ pc' = "open"
    /\ UNCHANGED <<app, cache, nConstructed, model, usedModels, loadFailure,
                   decodeFailure, conf_used, heap, image, image_result, raw,
                   detections, boxes_data, metrics, summary, total, notice, calls>>

\* A decoder that accepts any bytes
DecodeAlways(f) == TRUE

\* Image.open(uploaded_file) succeeds
DecodeOk(f) == f.kind = "image"

\* if uploaded_file is not None: ... else: the instructions
NoUpload ==
    /\ pc = "open"
    /\ uploaded_file.kind = "none"
    /\ notice' = "instructions"
    /\ pc' = "finished"
    /\ UNCHANGED <<app, cache, nConstructed, model, usedModels, loadFailure,
                   decodeFailure, uploaded_file, confidence, conf_used, heap, image,
                   image_result, raw, detections, boxes_data, metrics, summary, total,
                   calls>>

\* image = Image.open(uploaded_file).convert("RGB"), and in streamlit_app.py
\* image_np = np.array(image)
OpenImage ==
    /\ pc = "open"
    /\ uploaded_file.kind # "none"
    /\ DecodeOk(uploaded_file)
    /\ image' = "image"
    /\ heap' = IF app = "app"
               THEN [heap EXCEPT !["image"] = uploaded_file.pixels]
               ELSE [heap EXCEPT !["image"] = uploaded_file.pixels,
                                 !["image_np"] = uploaded_file.pixels]
    /\ pc' = "predict"
    /\ UNCHANGED <<app, cache, nConstructed, model, usedModels, loadFailure,
                   decodeFailure, uploaded_file, confidence, conf_used, image_result,
                   raw, detections, boxes_data, metrics, summary, total, notice, calls>>

\* Image.open raises: neither script catches it, the script run ends there and
\* Streamlit shows the exception
OpenImageFails ==
    /\ pc = "open"
    /\ uploaded_file.kind # "none"
    /\ ~DecodeOk(uploaded_file)
    /\ decodeFailure' = "now"
    /\ notice' = "exception"
    /\ pc' = "halted"
    /\ UNCHANGED <<app, cache, nConstructed, model, usedModels, loadFailure,
                   uploaded_file, confidence, conf_used, heap, image, image_result,
                   raw, detections, boxes_data, metrics, summary, total, calls>>

\* results = model.predict(..., conf=..., verbose=False)
Predict ==
    /\ pc = "predict"
    /\ conf_used' = Threshold
    /\ usedModels' = usedModels \cup {model}
    /\ raw' = Detect(uploaded_file.objects, Threshold)
    /\ calls' = calls \cup {"predict"}
    /\ pc' = "draw"
    /\ UNCHANGED <<app, cache, nConstructed, model, loadFailure, decodeFailure,
                   uploaded_file, confidence, heap, image, image_result, detections,
                   boxes_data, metrics, summary, total, notice>>

\* model.predict raises: not caught either
PredictFails ==
    /\ pc = "predict"
    /\ conf_used' = Threshold
    /\ usedModels' = usedModels \cup {model}
    /\ calls' = calls \cup {"predict"}
    /\ notice' = "exception"
    /\ pc' = "halted"
    /\ UNCHANGED <<app, cache, nConstructed, model, loadFailure, decodeFailure,
                   uploaded_file, confidence, heap, image, image_result, raw,
                   detections, boxes_data, metrics, summary, total>>

\* app.py: image_result, detections = draw_detections(image, results)
DrawApp ==
    LET ref == Copy(image, "img_draw")
        st == AppLoop([d |-> NewDetections, px |-> heap[image], drawn |-> << >>], raw)
    IN  /\ heap' = [heap EXCEPT ![ref] = st.px]
        /\ image_result' = ref
        /\ detections' = st.d
        /\ boxes_data' = st.drawn

\* streamlit_app.py: the counting loop, then the cv2 drawing loop and the
\* conversion back to a PIL image
DrawStreamlit ==
    LET st == StLoop([d |-> NewDetections, drawn |-> << >>], raw)
        h1 == [heap EXCEPT ![Copy(image, "img_draw")] = heap[image]]
        ref == Copy("image_np", "image_np_copy")
        h2 == [h1 EXCEPT ![ref] = h1["image_np"]]
        h3 == [h2 EXCEPT !["image_cv2"] = StDrawLoop(CvtColor(h2[ref]), st.drawn)]
    IN  /\ heap' = [h3 EXCEPT !["image_rgb"] = CvtColor(h3["image_cv2"])]
        /\ image_result' = "image_rgb"
        /\ detections' = st.d
        /\ boxes_data' = st.drawn

DrawDetections ==
    /\ pc = "draw"
    /\ IF app = "app" THEN DrawApp ELSE DrawStreamlit
    /\ calls' = calls \cup {"annotate"}
    /\ pc' = "summary"
    /\ UNCHANGED <<app, cache, nConstructed, model, usedModels, loadFailure,
                   decodeFailure, uploaded_file, confidence, conf_used, image, raw,
                   metrics, summary, total, notice>>

\* The metrics, the total and the one-line summary, or the message that nothing
\* was detected
ShowSummary ==
    /\ pc = "summary"
    /\ IF app = "app"
       THEN /\ metrics' = AppMetrics(detections)
            /\ total' = SumValues(detections)
            /\ summary' = Positive(detections)
       ELSE IF HasObjects(detections)
       THEN /\ metrics' = SortedByCount(detections)
            /\ total' = SumValues(detections)
            /\ summary' = SortedByCount(detections)
       ELSE /\ metrics' = << >>
            /\ total' = total
            /\ summary' = << >>
    /\ notice' = IF HasObjects(detections) THEN "summary" ELSE "no_objects"
    /\ calls' = calls \cup {"summary"}
    /\ pc' = "finished"
    /\ UNCHANGED <<app, cache, nConstructed, model, usedModels, loadFailure,
                   decodeFailure, uploaded_file, confidence, conf_used, heap, image,
                   image_result, raw, detections, boxes_data>>

\* The script run is over (its last line, st.stop() or an exception); the next
\* interaction of the user starts the script again from its first line
Rerun ==
    /\ pc \in {"finished", "halted"}
    /\ RunVarsFresh
    /\ loadFailure' = IF loadFailure = "now" THEN "before" ELSE loadFailure
    /\ decodeFailure' = IF decodeFailure = "now" THEN "before" ELSE decodeFailure
    /\ pc' = "load_model"
    /\ UNCHANGED <<app, cache, nConstructed, usedModels, confidence, detections>>

Next ==
    \/ LoadModelCached
    \/ LoadModelOk
    \/ LoadModelFails
    \/ CheckModel
    \/ ReadWidgets
    \/ NoUpload
    \/ OpenImage
    \/ OpenImageFails
    \/ Predict
    \/ PredictFails
    \/ DrawDetections
    \/ ShowSummary
    \/ Rerun

Spec == Init /\ [][Next]_vars

-----------------------------------------------------------------------------
(* Vocabulary of the properties *)

RegistryName(c) == IF app = "app" THEN CLASS_NAMES[c] ELSE CLASES_INTERES[c]
RegistryNames == { RegistryName(c) : c \in Registry }
Keys(d) == { d[i].k : i \in 1..Len(d) }
KeySeq(d) == [i \in 1..Len(d) |-> d[i].k]

\* The positions of raw holding a detection of the registered class named n
Occurrences(n) ==
    { i \in 1..Len(raw) : raw[i].cls \in Registry /\ RegistryName(raw[i].cls) = n }

\* Position of the first detection named n, past the end when there is none
FirstSeen(n) ==
    IF Occurrences(n) = {} THEN Len(raw) + 1
    ELSE CHOOSE i \in Occurrences(n) : \A j \in Occurrences(n) : i <= j

\* The entries of d whose class was detected stand in the order of first detection
OrderedByFirstSeen(d) ==
    \A a, b \in 1..Len(d) :
        (a < b /\ Occurrences(d[a].k) # {} /\ Occurrences(d[b].k) # {})
            => FirstSeen(d[a].k) < FirstSeen(d[b].k)

\* The count the dict holds for n, 0 when n is no key
ValueOf(d, n) == IF HasKey(d, n) THEN d[Get(d, n)].v ELSE 0

\* The user's setting of the threshold: the slider, or the one fixed value
ConfiguredThreshold == IF app = "app" THEN confidence ELSE FixedConf

Predicted == "predict" \in calls
Drawn == "annotate" \in calls
Completed == pc = "finished" /\ "summary" \in calls
AllUnregistered == \A i \in 1..Len(raw) : raw[i].cls \notin Registry
AppKeyOrder == << "car", "person", "traffic light", "bus", "truck", "motorbike" >>

-----------------------------------------------------------------------------
(* C1 *)

\* C1 (as stated): every box drawn has a class_id of the registry, and every
\* key of the counts names a class of the registry.
C1_Original ==
    Drawn => /\ \A i \in 1..Len(boxes_data) : boxes_data[i].class_id \in Registry
             /\ Keys(detections) \subseteq RegistryNames

\* C1 (amended): every key of the counts names a class of the registry and no
\* count exceeds the number of detections of that class, so a detection of an
\* unregistered class is never counted; but every raw detection, registered or
\* not, is drawn, in the detector's order.
C1_Amended ==
    Drawn => /\ Keys(detections) \subseteq RegistryNames
             /\ \A i \in 1..Len(detections) :
                    detections[i].v <= Cardinality(Occurrences(detections[i].k))
             /\ Len(boxes_data) = Len(raw)
             /\ \A i \in 1..Len(raw) : /\ boxes_data[i].class_id = raw[i].cls
                                       /\ boxes_data[i].xyxy = raw[i].xyxy

C1_Witness ==
    /\ Drawn
    /\ \E i \in 1..Len(boxes_data) : boxes_data[i].class_id \notin Registry
    /\ \E i \in 1..Len(boxes_data) : boxes_data[i].class_id \in Registry

-----------------------------------------------------------------------------
(* C2 *)

\* C2 (as stated): the counts add up to the number of boxes drawn.
C2_Original == Drawn => SumValues(detections) = Len(boxes_data)

\* C2 (amended): the counts add up to the number of boxes drawn whose class is
\* in the registry, which is the number of boxes drawn only when no detection
\* has an unregistered class; the total shown is that sum.
C2_Amended ==
    /\ Drawn => SumValues(detections) =
                  Cardinality({ i \in 1..Len(boxes_data) :
                                  boxes_data[i].class_id \in Registry })
    /\ (Completed /\ notice = "summary") => total = SumValues(detections)

C2_Witness ==
    /\ Completed
    /\ SumValues(detections) >= 2
    /\ Len(boxes_data) > SumValues(detections)

-----------------------------------------------------------------------------
(* C3 *)

-----------------------------------------------------------------------------
(* C4 *)

\* C4: in a session at most one detector is ever constructed, and every
\* detection call of every rerun is made on that one instance.
C4_LoadedOnce ==
    /\ nConstructed <= 1
    /\ usedModels \subseteq {1}
    /\ pc \in {"predict", "draw", "summary"} => model = 1

C4_Witness == pc = "predict" /\ usedModels = {1} /\ model = 1

-----------------------------------------------------------------------------
(* C5 *)

\* C5 (as stated): once a load of the detector has failed, the session never
\* reaches the upload and processing part of the script again.
C5_Original ==
    loadFailure # "never" =>
        /\ pc \in {"load_model", "check_model", "halted"}
        /\ calls = {}

\* C5 (amended): the rerun in which the load fails shows an error and stops
\* before the upload part, in both scripts.  In app.py that holds for the rest
\* of the session: the None is cached and every later rerun stops at the guard.
\* (streamlit_app.py caches nothing of a failed load, so a later rerun loads
\* again and may go on.)
C5_Amended ==
    /\ loadFailure = "now" =>
          /\ pc \in {"check_model", "halted"}
          /\ calls = {}
          /\ notice \in {"load_error", "no_model", "exception"}
    /\ (app = "app" /\ loadFailure # "never") =>
          /\ pc \in {"load_model", "check_model", "halted"}
          /\ calls = {}
          /\ cache = "none"
          /\ model = 0
          /\ pc = "halted" => notice = "no_model"

C5_Witness ==
    app = "app" /\ loadFailure = "before" /\ pc = "halted" /\ notice = "no_model"

-----------------------------------------------------------------------------
(* C6 *)

\* C6 (as stated): the keys of the counts, the metrics and the summary all
\* list the classes in the order of their first detection.
C6_Original ==
    Completed => /\ OrderedByFirstSeen(detections)
                 /\ OrderedByFirstSeen(summary)
                 /\ app # "app" => OrderedByFirstSeen(metrics)

\* C6 (amended): in streamlit_app.py the keys of the counts are in the order
\* of first detection, while the metrics and the summary list the classes by
\* decreasing count, classes of equal count in the order of first detection.
\* In app.py the counts have the six fixed keys in the order the dict is
\* written, the metrics follow that order, and the summary lists the classes
\* seen at least once in that same fixed order.
C6_Amended ==
    Completed =>
        IF app = "app"
        THEN /\ KeySeq(detections) = AppKeyOrder
             /\ Len(metrics) = Len(AppKeyOrder)
             /\ \A i \in 1..Len(metrics) : metrics[i].v = detections[i].v
             /\ \A i \in 1..Len(summary) :
                    summary[i] \in { detections[j] : j \in 1..Len(detections) }
             /\ Keys(summary) = { detections[j].k : j \in { n \in 1..Len(detections) :
                                                             detections[n].v > 0 } }
             /\ \A a, b \in 1..Len(summary) :
                    a < b => Get(detections, summary[a].k) < Get(detections, summary[b].k)
        ELSE /\ OrderedByFirstSeen(detections)
             /\ Cardinality(Keys(detections)) = Len(detections)
             /\ metrics = summary
             /\ Len(summary) = Len(detections)
             /\ { summary[i] : i \in 1..Len(summary) } =
                  { detections[i] : i \in 1..Len(detections) }
             /\ \A a, b \in 1..Len(summary) :
                    a < b => \/ summary[a].v > summary[b].v
                             \/ /\ summary[a].v = summary[b].v
                                /\ FirstSeen(summary[a].k) < FirstSeen(summary[b].k)

C6_Witness ==
    /\ app = "streamlit_app"
    /\ Completed
    /\ Len(summary) = 2
    /\ KeySeq(summary) # KeySeq(detections)

-----------------------------------------------------------------------------
(* C7 *)

\* C7 (as stated): when the detector returns nothing, or only detections of
\* unregistered classes, the counts are an empty mapping, nothing is drawn and
\* the message that no object was detected is shown.
C7_Original ==
    (Completed /\ AllUnregistered) =>
        /\ detections = << >>
        /\ boxes_data = << >>
        /\ notice = "no_objects"

\* C7 (amended): in those cases the run completes, no class has a positive
\* count (an empty mapping in streamlit_app.py, the six keys at zero in
\* app.py), no summary is listed and the message that no object was detected
\* is shown.  Nothing is drawn only when the detector returned nothing: the
\* boxes of unregistered classes are drawn.
C7_Amended ==
    (Completed /\ AllUnregistered) =>
        /\ notice = "no_objects"
        /\ summary = << >>
        /\ SumValues(detections) = 0
        /\ IF app = "app" THEN KeySeq(detections) = AppKeyOrder ELSE detections = << >>
        /\ Len(boxes_data) = Len(raw)
        /\ raw = << >> => heap[image_result] = heap[image]

C7_Witness == Completed /\ AllUnregistered /\ raw # << >>

-----------------------------------------------------------------------------
(* C8 *)

\* C8: the decoded upload keeps the pixels of the uploaded picture through the
\* whole run, the annotated image is another object, and with no detection the
\* annotated image has the pixels of the original.
C8_OriginalUntouched ==
    /\ image # "none" => heap[image] = uploaded_file.pixels
    /\ (image # "none" /\ app = "streamlit_app") => heap["image_np"] = uploaded_file.pixels
    /\ Drawn => image_result # image
    /\ (Drawn /\ raw = << >>) => heap[image_result] = uploaded_file.pixels

C8_Witness ==
    /\ Completed
    /\ raw # << >>
    /\ heap[image_result] # heap[image]
    /\ heap[image] = uploaded_file.pixels

-----------------------------------------------------------------------------
(* C9 *)

\* C9: a rerun whose upload does not decode calls neither the detector nor the
\* annotation nor the summary and ends with the exception shown; the rerun
\* after it goes through the whole pipeline.
C9_DecodeError ==
    /\ uploaded_file.kind = "corrupt" =>
          /\ pc \in {"open", "halted"}
          /\ calls = {}
          /\ image = "none" /\ image_result = "none"
          /\ raw = << >> /\ boxes_data = << >> /\ summary = << >> /\ metrics = << >>
          /\ pc = "halted" => (notice = "exception" /\ decodeFailure = "now")
    /\ (decodeFailure = "before" /\ pc = "finished" /\ uploaded_file.kind = "image") =>
          /\ calls = {"predict", "annotate", "summary"}
          /\ notice \in {"summary", "no_objects"}
          /\ Len(boxes_data) = Len(Detect(uploaded_file.objects, ConfiguredThreshold))

C9_Witness ==
    /\ decodeFailure = "before"
    /\ Completed
    /\ notice = "summary"

-----------------------------------------------------------------------------
(* C10 *)

\* C10: whatever the earlier reruns did, the counts and the boxes drawn are a
\* function of this rerun's raw detections alone: each registered class is
\* counted as many times as it occurs in them, nothing else is a key, and the
\* boxes drawn are the raw detections, one for one.
C10_Independent ==
    Drawn =>
        /\ \A n \in RegistryNames :
              ValueOf(detections, n) = Cardinality(Occurrences(n))
        /\ Cardinality(Keys(detections)) = Len(detections)
        /\ \A i \in 1..Len(detections) :
              app = "app" \/ detections[i].v > 0
        /\ boxes_data = [i \in 1..Len(raw) |->
                           [xyxy |-> raw[i].xyxy,
                            class_name |-> IF app = "app" THEN AppClassName(raw[i].cls)
                                           ELSE ModelNames[raw[i].cls],
                            conf |-> raw[i].conf, class_id |-> raw[i].cls]]

C10_Witness ==
    /\ Drawn
    /\ detections # << >>
    /\ SumValues(detections) >= 2
    /\ decodeFailure = "before"
    /\ usedModels = {1}

====
